---- MODULE Spec2Model ----
(***************************************************************************)
(* The three autoregressive decode loops of the repository:                *)
(*   greedy_search      audio_processing/kotoba-whisper/kotoba-whisper.py  *)
(*   sample             multimodal_language_model/qwen_audio/qwen_audio.py *)
(*   T2SModel.forward   audio_processing/gpt-sovits/gpt-sovits.py          *)
(* and chunk_iter, the chunking of kotoba-whisper.py's preprocess.         *)
(* One behaviour is one invocation of one of them.  The networks are the   *)
(* environment: an inference call either returns (scores drawn from a      *)
(* bounded set, and a cache grown by the number of tokens fed) or raises.  *)
(*                                                                         *)
(* A score is kept as its weight exp(score): 0 stands for -inf, and the    *)
(* order of the scores, their arg-max and the comparison of a log-sum-exp  *)
(* with a maximum are the same on weights as on scores.                    *)
(***************************************************************************)
EXTENDS Integers, Sequences, FiniteSets, TLC

VARIABLES
    decoder,               \* which function this behaviour invokes
    args,                  \* sample: the sampling options of the command line
    pc,                    \* "loop", "exit" (T2S loop left), "returned", "raised"
    never_stop,            \* TRUE: stopping_criteria replaced by a stub that never fires
    prompt,                \* the input_ids argument, one token sequence per row
    input_ids,             \* the growing batch of token sequences
    unfinished_sequences,  \* per row, 1 while unfinished
    this_peer_finished,
    past_length,           \* time-length of past_key_values[0]
    pad_token_id,          \* sample: the global the name resolves to, or Unbound
    streamer,              \* sample: the global the name resolves to, or Unbound
    steps,                 \* history: loop iterations that appended a token
    calls,                 \* history: inference calls made
    fed,                   \* history: per inference call, <<from, to>> positions fed
    emitted,               \* history: per row, the tokens appended, in order
    finished_at,           \* history: per row, the step that first finished it (0: none)
    is_stopping,           \* history: the last value stopping_criteria returned
    first_argmax,          \* history: per row, arg-max of the raw scores of step 1
    same_logits,           \* history: every decode call so far gave all rows the same scores
    last_scores,           \* history: per row, what the processors did at the last step
    probs,                 \* sample: per row, the ids of non-zero probability
    encoder_hidden_states, \* greedy_search: its argument, the encoder context
    context_log,           \* history: per inference call, the encoder context it got
                           \* (greedy_search) or whether it ran audio_encode (sample)
    result,                \* the value returned
    tts,                   \* T2SModel.forward: its locals, a record
    chunking               \* chunk_iter: its arguments and locals, a record

vars == <<decoder, args, pc, never_stop, prompt, input_ids, unfinished_sequences,
          this_peer_finished, past_length, pad_token_id, streamer, steps, calls,
          fed, emitted, finished_at, is_stopping, first_argmax, same_logits,
          last_scores, probs, encoder_hidden_states, context_log, result, tts, chunking>>

(***************************************************************************)
(* Bounds of the exploration.                                              *)
(***************************************************************************)
\* Tokens one invocation of greedy_search / sample may append over all rows:
\* a single row is followed for MaxAppended iterations, two rows for half.
MaxAppended == 4
\* The batch sizes explored.
BatchSizes == {1, 2}
\* How far below the max-length ceiling the long prompts start.
MaxBelow == 3

\* chunk_iter: the longest input, the longest chunk and the widest stride.
MaxInputsLen == 9
MaxChunkLen == 6
MaxStride == 2

\* A global name the module does not bind (reading it raises NameError).
Unbound == 0 - 1

Last(s) == s[Len(s)]

RECURSIVE SumOver(_, _)
SumOver(S, w) ==
    IF S = {} THEN 0
    ELSE LET t == CHOOSE x \in S : TRUE IN w[t] + SumOver(S \ {t}, w)

MaxOver(S, w) ==
    IF S = {} THEN 0 ELSE CHOOSE m \in {w[t] : t \in S} : \A t \in S : w[t] <= m

\* Python's a | b on non-negative integers.
RECURSIVE BitOr(_, _)
BitOr(a, b) ==
    IF a = 0 THEN b
    ELSE IF b = 0 THEN a
    ELSE (IF a % 2 = 1 \/ b % 2 = 1 THEN 1 ELSE 0) + 2 * BitOr(a \div 2, b \div 2)

BoolInt(b) == IF b THEN 1 ELSE 0

(***************************************************************************)
(* kotoba-whisper.py: stopping_criteria                                    *)
(***************************************************************************)
max_length_asr == 448
eos_token_id_asr == 50257

\* Faulty variant: the max-length criterion is left out.
MaxLengthCriteriaLeftOut(cur_len) == FALSE

\* Faulty variant: cur_len > max_length instead of >=.
MaxLengthCriteriaStrict(cur_len) == BitOr(BoolInt(FALSE), cur_len) > max_length_asr

\* is_done = is_done | cur_len >= max_length, as Python parses it:
\* (is_done | cur_len) >= max_length, with is_done all False before it.
MaxLengthCriteria_asr(cur_len) == BitOr(BoolInt(FALSE), cur_len) >= max_length_asr

EosTokenCriteria_asr(last) == last \in {eos_token_id_asr}

stopping_criteria_asr(ids) ==
    [r \in DOMAIN ids |->
        MaxLengthCriteria_asr(Len(ids[r])) \/ EosTokenCriteria_asr(Last(ids[r]))]

(***************************************************************************)
(* qwen_audio.py: stopping_criteria                                        *)
(***************************************************************************)
max_length_chat == 310
eos_token_id_chat == 7

MaxLengthCriteria_chat(cur_len) == cur_len >= max_length_chat

EosTokenCriteria_chat(last) == last \in {eos_token_id_chat}

stopping_criteria_chat(ids) ==
    [r \in DOMAIN ids |->
        MaxLengthCriteria_chat(Len(ids[r])) \/ EosTokenCriteria_chat(Last(ids[r]))]

(***************************************************************************)
(* The bookkeeping shared by greedy_search and sample.                     *)
(***************************************************************************)
\* Faulty variant: the padding of finished rows is left out.
PadFinishedLeftOut(next_tokens, unfinished, pad) == next_tokens

\* next_tokens * unfinished_sequences + pad_token_id * (1 - unfinished_sequences)
PadFinished(next_tokens, unfinished, pad) ==
    [r \in DOMAIN unfinished |->
        next_tokens[r] * unfinished[r] + pad * (1 - unfinished[r])]

\* np.concatenate([input_ids, next_tokens[:, None]], axis=-1)
Concatenate(ids, next_tokens) == [r \in DOMAIN ids |-> Append(ids[r], next_tokens[r])]

\* Faulty variant: unfinished_sequences ^ is_stopping instead of & ~is_stopping.
UpdateUnfinishedXor(unfinished, stopping) ==
    [r \in DOMAIN unfinished |->
        IF (unfinished[r] = 1) # stopping[r] THEN 1 ELSE 0]

\* Faulty variant: the negation is left out, unfinished_sequences & is_stopping.
UpdateUnfinishedNoNegation(unfinished, stopping) ==
    [r \in DOMAIN unfinished |-> IF unfinished[r] = 1 /\ stopping[r] THEN 1 ELSE 0]

\* unfinished_sequences & ~is_stopping
UpdateUnfinished(unfinished, stopping) ==
    [r \in DOMAIN unfinished |-> IF unfinished[r] = 1 /\ ~stopping[r] THEN 1 ELSE 0]

\* Faulty variant: np.min(unfinished_sequences) == 0, one finished row ends the loop.
AnyFinished(unfinished) == \E r \in DOMAIN unfinished : unfinished[r] = 0

\* np.max(unfinished_sequences) == 0
AllFinished(unfinished) ==
    LET m == CHOOSE x \in {unfinished[r] : r \in DOMAIN unfinished} :
                 \A r \in DOMAIN unfinished : unfinished[r] <= x
    IN  m = 0

\* The stub of the ceiling-safety property: no row is ever reported finished.
NeverStopping(ids) == [r \in DOMAIN ids |-> FALSE]

FinishedAt(old, unfinished, new_unfinished, step) ==
    [r \in DOMAIN old |->
        IF unfinished[r] = 1 /\ new_unfinished[r] = 0 THEN step ELSE old[r]]

(***************************************************************************)
(* kotoba-whisper.py: greedy_search                                        *)
(***************************************************************************)
pad_token_id_asr == 50257
suppress_tokens ==
    {1,     2,     7,     8,     9,     10,    14,    25,    26,    27,
     28,    29,    31,    58,    59,    60,    61,    62,    63,    90,
     91,    92,    93,    359,   503,   522,   542,   873,   893,   902,
     918,   922,   931,   1350,  1853,  1982,  2460,  2627,  3246,  3253,
     3268,  3536,  3846,  3961,  4183,  4667,  6585,  6647,  7273,  9061,
     9383,  10428, 10929, 11938, 12033, 12331, 12562, 13793, 14157, 14635,
     15265, 15618, 16553, 16604, 18362, 18956, 20075, 21675, 22520, 26130,
     26161, 26435, 28279, 29464, 31650, 32302, 32470, 36865, 42863, 47425,
     49870, 50254, 50258, 50359, 50360, 50361, 50362, 50363}
begin_index == 3
begin_suppress_tokens == {220, 50257}
no_timestamps_token_id == 50364
timestamp_begin == 50365
max_initial_timestamp_index == 50

\* init_tokens of predict
init_tokens == <<50258, 50266, 50360>>

\* The vocabulary ids the decoder's scores are explored on; every other id
\* has raw score -inf.  One id of each kind the processors tell apart:
\* plain text (0, also the arg-max of a row of -inf), suppressed (1),
\* suppressed at begin (220, eos), no-timestamps, and timestamps at, inside
\* and just past the initial window.
Vocab == {0, 1, 220, 50257, 50364, 50365, 50415, 50416}

\* Raw next-token scores of one row: one favoured id, the rest level or -inf.
RawScores ==
    {[t \in Vocab |-> IF t = f THEN k[1] ELSE k[2]] :
        f \in Vocab, k \in {<<2, 1>>, <<5, 1>>, <<5, 0>>}}

\* scores[S] = -inf
Mask(w, S) == [t \in Vocab |-> IF t \in S THEN 0 ELSE w[t]]

\* np.argmax: the first id of maximal score (id 0 when every score is -inf,
\* ids outside Vocab being -inf too).
ArgMax(w) ==
    LET m == MaxOver(Vocab, w)
    IN  IF m = 0 THEN 0
        ELSE CHOOSE t \in Vocab : w[t] = m /\ \A u \in Vocab : w[u] = m => t <= u

\* input_ids[k, begin_index:]
SampledTokens(row) ==
    IF Len(row) <= begin_index THEN <<>> ELSE SubSeq(row, begin_index + 1, Len(row))

last_was_timestamp(seq) == Len(seq) >= 1 /\ seq[Len(seq)] >= timestamp_begin

penultimate_was_timestamp(seq) == Len(seq) < 2 \/ seq[Len(seq) - 1] >= timestamp_begin

\* Faulty variant: suppress_tokens are not masked.
SuppressTokensLeftOut(w) == w

\* SuppressTokensLogitsProcessor
SuppressTokens(w) == Mask(w, suppress_tokens)

\* Faulty variant: begin_suppress_tokens are masked at every length.
SuppressTokensAtBeginAlways(w, cur_len) == Mask(w, begin_suppress_tokens)

\* SuppressTokensAtBeginLogitsProcessor
SuppressTokensAtBegin(w, cur_len) ==
    IF cur_len = begin_index THEN Mask(w, begin_suppress_tokens) ELSE w

\* Faulty variant: the two branches exchanged.
TimestampPairsSwapped(w, seq) ==
    IF last_was_timestamp(seq)
    THEN IF penultimate_was_timestamp(seq)
         THEN Mask(w, {t \in Vocab : t < eos_token_id_asr})
         ELSE Mask(w, {t \in Vocab : t >= timestamp_begin})
    ELSE w

\* timestamps have to appear in pairs, except directly before eos_token
TimestampPairs(w, seq) ==
    IF last_was_timestamp(seq)
    THEN IF penultimate_was_timestamp(seq)
         THEN Mask(w, {t \in Vocab : t >= timestamp_begin})
         ELSE Mask(w, {t \in Vocab : t < eos_token_id_asr})
    ELSE w

\* Faulty variant: no timestamp is masked for being below the newest one.
TimestampMonotoneLeftOut(w, seq) == w

\* Faulty variant: timestamp_last is the newest timestamp in both branches.
TimestampMonotoneNoIncrement(w, seq) ==
    LET at == {i \in 1..Len(seq) : seq[i] >= timestamp_begin}
    IN  IF at = {} THEN w
        ELSE LET newest == seq[CHOOSE i \in at : \A j \in at : j <= i]
             IN  Mask(w, {t \in Vocab : timestamp_begin <= t /\ t < newest})

\* timestamps shouldn't decrease
TimestampMonotone(w, seq) ==
    LET at == {i \in 1..Len(seq) : seq[i] >= timestamp_begin}
    IN  IF at = {} THEN w
        ELSE LET newest == seq[CHOOSE i \in at : \A j \in at : j <= i]
                 timestamp_last ==
                     IF last_was_timestamp(seq) /\ ~penultimate_was_timestamp(seq)
                     THEN newest ELSE newest + 1
             IN  Mask(w, {t \in Vocab : timestamp_begin <= t /\ t < timestamp_last})

\* Faulty variant: the ids above last_allowed are left open.
MaxInitialTimestampNoCeiling(w, cur_len) ==
    IF cur_len = begin_index
    THEN Mask(w, {t \in Vocab : t < timestamp_begin})
    ELSE w

\* apply the max_initial_timestamp option
MaxInitialTimestamp(w, cur_len) ==
    IF cur_len = begin_index
    THEN LET last_allowed == timestamp_begin + max_initial_timestamp_index
         IN  Mask(Mask(w, {t \in Vocab : t < timestamp_begin}),
                  {t \in Vocab : t >= last_allowed + 1})
    ELSE w

\* if sum of probability over timestamps is above any other token, sample timestamp
TimestampMass(w) ==
    IF SumOver({t \in Vocab : t >= timestamp_begin}, w)
         > MaxOver({t \in Vocab : t < timestamp_begin}, w)
    THEN Mask(w, {t \in Vocab : t < timestamp_begin})
    ELSE w

\* Faulty variant: the begin step is taken to be the one after begin_index.
ProcessScoresBeginLate(w, row, cur_len) ==
    LET seq == SampledTokens(row)
        a == SuppressTokensAtBegin(SuppressTokens(w), cur_len - 1)
        b == Mask(a, {no_timestamps_token_id})
        c == TimestampMonotone(TimestampPairs(b, seq), seq)
    IN  TimestampMass(MaxInitialTimestamp(c, cur_len - 1))

\* The processors of one iteration, in the order of the code, for row `row`.
ProcessScores(w, row, cur_len) ==
    LET seq == SampledTokens(row)
        a == SuppressTokensAtBegin(SuppressTokens(w), cur_len)
        b == Mask(a, {no_timestamps_token_id})
        c == TimestampMonotone(TimestampPairs(b, seq), seq)
    IN  TimestampMass(MaxInitialTimestamp(c, cur_len))

\* Faulty variant: input_ids[:, -1:], the last token alone even on the first call.
DecoderInputIdsLastOnly(cur_len, past) == <<cur_len - 1, cur_len>>

\* Faulty variant: input_ids[:, 0:], the whole sequence on every call.
DecoderInputIdsWhole(cur_len, past) == <<0, cur_len>>

\* input_ids[:, past_length:], as <<from, to>> (0-based, to exclusive)
DecoderInputIds(cur_len, past) == <<IF past < cur_len THEN past ELSE cur_len, cur_len>>

\* The cache a returning decoder call hands back: grown by the tokens fed.
NewPastLength(past, slice) == past + (slice[2] - slice[1])

Rows == 1..Len(input_ids)

\* The ids the max_initial_timestamp option leaves open at this length: the
\* initial timestamp window at begin_index, every id at any other length.
InitialWindow(cur_len) ==
    IF cur_len = begin_index
    THEN {t \in Vocab : /\ timestamp_begin <= t
                        /\ t <= timestamp_begin + max_initial_timestamp_index}
    ELSE Vocab

\* What is kept of one row's scores of an iteration: whether the processors
\* left every score at -inf, whether an id of InitialWindow had a finite raw
\* score, and the ids SuppressTokensAtBegin set to -inf.
ScoresSeen(w, row, cur_len) ==
    LET a == SuppressTokens(w)
        processed == ProcessScores(w, row, cur_len)
    IN  [all_masked |-> \A t \in Vocab : processed[t] = 0,
         window |-> \E t \in InitialWindow(cur_len) : w[t] # 0,
         begin_masked |->
             {t \in Vocab : a[t] # 0 /\ SuppressTokensAtBegin(a, cur_len)[t] = 0}]

NoScores == [all_masked |-> FALSE, window |-> FALSE, begin_masked |-> {}]

\* Faulty variant: next_tokens is drawn among the ids of maximal score.
RowOutcomesAnyMaximal(row, cur_len) ==
    UNION {LET processed == ProcessScores(w, row, cur_len)
           IN  {<<ArgMax(w), t, ScoresSeen(w, row, cur_len), w>> :
                   t \in {u \in Vocab : processed[u] = MaxOver(Vocab, processed)}} :
           w \in RawScores}

\* What one row of a returning decoder call can lead to: the arg-max of the
\* raw scores, the arg-max of the processed scores, what is kept of the
\* scores, and the raw scores themselves, over all raw scores.
RowOutcomes(row, cur_len) ==
    {<<ArgMax(w), ArgMax(ProcessScores(w, row, cur_len)),
       ScoresSeen(w, row, cur_len), w>> :
        w \in RawScores}

\* One outcome per row: the product of the rows' outcomes.
RECURSIVE PicksUpTo(_, _, _)
PicksUpTo(ids, cur_len, n) ==
    IF n = 0 THEN {<<>>}
    ELSE LET here == RowOutcomes(ids[n], cur_len)
             before == PicksUpTo(ids, cur_len, n - 1)
         IN  {Append(f, x) : f \in before, x \in here}

Picks(ids, cur_len) == PicksUpTo(ids, cur_len, Len(ids))

\* The exploration follows one more iteration.
Explored == (steps + 1) * Len(input_ids) <= MaxAppended

\* Faulty variant: the exception of decode is swallowed and the loop goes on.
OnDecodeErrorContinue == "loop"

\* decode is called outside any try block: what it raises leaves greedy_search.
OnDecodeError == "raised"

GreedyStep ==
    /\ decoder = "greedy_search"
    /\ pc = "loop"
    /\ ~this_peer_finished
    /\ Explored
    /\ LET cur_len == Len(input_ids[1])
           slice == DecoderInputIds(cur_len, past_length)
       IN  /\ calls' = calls + 1
           /\ fed' = Append(fed, slice)
           /\ context_log' = Append(context_log, encoder_hidden_states)
           /\ \E outcome \in {"returns", "raises"} :
                IF outcome = "raises"
                THEN /\ pc' = OnDecodeError
                     /\ UNCHANGED <<input_ids, unfinished_sequences,
                                    this_peer_finished, past_length, steps, emitted,
                                    finished_at, is_stopping, first_argmax, same_logits,
                                    last_scores>>
                ELSE \E pick \in Picks(input_ids, cur_len) :
                       LET argmax == [r \in Rows |-> pick[r][2]]
                           next_tokens == PadFinished(argmax, unfinished_sequences,
                                                      pad_token_id_asr)
                           ids == Concatenate(input_ids, next_tokens)
                           stopping == IF never_stop THEN NeverStopping(ids)
                                       ELSE stopping_criteria_asr(ids)
                           unfinished ==
                               UpdateUnfinished(unfinished_sequences, stopping)
                       IN  /\ pc' = "loop"
                           /\ past_length' = NewPastLength(past_length, slice)
                           /\ input_ids' = ids
                           /\ emitted' = Concatenate(emitted, next_tokens)
                           /\ is_stopping' = stopping
                           /\ unfinished_sequences' = unfinished
                           /\ this_peer_finished' = AllFinished(unfinished)
                           /\ steps' = steps + 1
                           /\ finished_at' =
                                  FinishedAt(finished_at, unfinished_sequences,
                                             unfinished, steps + 1)
                           /\ first_argmax' =
                                  IF steps = 0 THEN [r \in Rows |-> pick[r][1]]
                                  ELSE first_argmax
                           /\ last_scores' = [r \in Rows |-> pick[r][3]]
                           /\ same_logits' =
                                  /\ same_logits
                                  /\ \A r \in Rows : pick[r][4] = pick[1][4]
    /\ UNCHANGED <<decoder, chunking, args, never_stop, prompt, pad_token_id,
                   streamer, probs,
                   encoder_hidden_states, result, tts>>

\* Faulty variant: return input_ids[:, 1:]
ReturnValueTail(ids) == [r \in DOMAIN ids |-> Tail(ids[r])]

\* return input_ids
ReturnValue(ids) == ids

GreedyReturn ==
    /\ decoder = "greedy_search"
    /\ pc = "loop"
    /\ this_peer_finished
    /\ pc' = "returned"
    /\ result' = ReturnValue(input_ids)
    /\ UNCHANGED <<decoder, chunking, args, never_stop, prompt, input_ids,
                   unfinished_sequences,
                   this_peer_finished, past_length, pad_token_id, streamer, steps,
                   calls, fed, emitted, finished_at, is_stopping, first_argmax, same_logits,
                   last_scores, probs, encoder_hidden_states, context_log, tts>>

\* The prompts explored: init_tokens as predict passes them, and init_tokens
\* followed by plain text up to a length near the ceiling.
PromptOfLen(n, head, filler) ==
    [i \in 1..n |-> IF i <= Len(head) THEN head[i] ELSE filler]

PromptLens(natural, ceiling) == {natural} \cup ((ceiling - MaxBelow)..(ceiling + 1))

\* With the stub for stopping_criteria every prompt is followed to the bound
\* of the exploration: the natural prompt and one at the ceiling are explored.
StubPromptLens(natural, ceiling) == {natural, ceiling}

\* --temperature, --top_p (both in thousandths) and --top_k: the defaults of
\* the parser, and values that contradict one another.
ChatArgs ==
    {[temperature |-> 10, top_p |-> 1, top_k |-> 1],
     [temperature |-> 0, top_p |-> 0, top_k |-> 0]}

\* The options of a decoder that has none.
NoArgs == [temperature |-> Unbound, top_p |-> Unbound, top_k |-> Unbound]

\* The locals of chunk_iter while another function runs.
NoChunking == [inputs_len |-> 0, chunk_len_arg |-> 0, chunk_len |-> 0,
               stride_left |-> 0, stride_right |-> 0, step |-> 0,
               chunk_start_idx |-> 0, reached |-> 0, yielded |-> <<>>]

NoTts == [y |-> <<>>, y_len |-> 0, prefix_len |-> 0, early_stop_num |-> Unbound,
          idx |-> 0, stop |-> FALSE, early |-> FALSE, eos |-> FALSE,
          returned_len |-> 0]

\* Faulty variant: the length criterion is applied to the prompt before the
\* first iteration.
FinishedBeforeLoopByLength(d, row) ==
    Len(row) >= IF d = "greedy_search" THEN max_length_asr ELSE max_length_chat

\* this_peer_finished = False
FinishedBeforeLoop(d, row) == FALSE

InitLoop(d, ns, batch, row, pad, strm, context, options) ==
    /\ decoder = d
    /\ args = options
    /\ pc = "loop"
    /\ never_stop = ns
    /\ prompt = [r \in 1..batch |-> row]
    /\ input_ids = prompt
    /\ unfinished_sequences = [r \in 1..batch |-> 1]
    /\ this_peer_finished = FinishedBeforeLoop(d, row)
    /\ past_length = 0
    /\ pad_token_id = pad
    /\ streamer = strm
    /\ steps = 0
    /\ calls = 0
    /\ fed = <<>>
    /\ emitted = [r \in 1..batch |-> <<>>]
    /\ finished_at = [r \in 1..batch |-> 0]
    /\ is_stopping = [r \in 1..batch |-> FALSE]
    /\ first_argmax = [r \in 1..batch |-> Unbound]
    /\ same_logits = TRUE
    /\ last_scores = [r \in 1..batch |-> NoScores]
    /\ probs = [r \in 1..batch |-> {}]
    /\ encoder_hidden_states = context
    /\ context_log = <<>>
    /\ result = <<>>
    /\ tts = NoTts
    /\ chunking = NoChunking

\* The encoder context predict hands over.
EncoderContexts == {"last_hidden_state"}

InitGreedy(ns) ==
    \E batch \in BatchSizes,
       n \in IF ns THEN StubPromptLens(begin_index, max_length_asr)
             ELSE PromptLens(begin_index, max_length_asr),
       context \in EncoderContexts :
        InitLoop("greedy_search", ns, batch, PromptOfLen(n, init_tokens, 0),
                 pad_token_id_asr, "None", context, NoArgs)

(***************************************************************************)
(* qwen_audio.py: sample                                                   *)
(*                                                                         *)
(* forward is the inference call of this loop; pad_token_id and streamer   *)
(* are names sample reads from the module's globals.  The module binds     *)
(* neither (the assignment of pad_token_id is commented out), so reading   *)
(* them raises NameError; the values an embedding script may bind them to  *)
(* are explored as well.                                                   *)
(***************************************************************************)
\* Token ids the chat scores are explored on: eos (7) and two others.
ChatVocab == {0, 7, 9}

\* Per row, the ids of non-zero probability after logits_processor and softmax.
ChatProbs == (SUBSET ChatVocab) \ {{}}

\* What the global pad_token_id may be: not bound, the eos id, another id.
ChatPads == {Unbound, eos_token_id_chat, 0}

\* model_input_ids: input_ids while the cache is empty, else left as it was.
ModelInputIds(cur_len, past, previous) ==
    IF 0 < past THEN previous ELSE <<0, cur_len>>

\* Faulty variant: audio_encode is run on every call.
RunsAudioEncodeAlways(past) == TRUE

\* forward: audio_encode is run when the cache handed in is empty.
RunsAudioEncode(past) == past = 0

\* np.random.choice(len(probs[0]), size=1, p=probs[0]): the ids it can draw.
RandomChoice(p) == p[1]

\* next_tokens, of shape (1,), broadcast against unfinished_sequences.
Broadcast(token, unfinished) == [r \in DOMAIN unfinished |-> token]

SampleStep ==
    /\ decoder = "sample"
    /\ pc = "loop"
    /\ ~this_peer_finished
    /\ Explored
    /\ LET cur_len == Len(input_ids[1])
           slice == ModelInputIds(cur_len, past_length,
                                  IF fed = <<>> THEN <<0, 0>> ELSE Last(fed))
       IN  /\ calls' = calls + 1
           /\ fed' = Append(fed, slice)
           /\ context_log' = Append(context_log, RunsAudioEncode(past_length))
           /\ \E outcome \in {"returns", "raises"} :
                IF outcome = "raises"
                THEN /\ pc' = "raised"
                     /\ UNCHANGED <<input_ids, unfinished_sequences,
                                    this_peer_finished, past_length, steps, emitted,
                                    finished_at, is_stopping, probs>>
                ELSE \E softmax \in [Rows -> ChatProbs] :
                     \E token \in RandomChoice(softmax) :
                       LET next_tokens ==
                               PadFinished(Broadcast(token, unfinished_sequences),
                                           unfinished_sequences, pad_token_id)
                           ids == Concatenate(input_ids, next_tokens)
                           stopping == IF never_stop THEN NeverStopping(ids)
                                       ELSE stopping_criteria_chat(ids)
                           unfinished ==
                               UpdateUnfinished(unfinished_sequences, stopping)
                       IN  /\ past_length' = NewPastLength(past_length, slice)
                           /\ probs' = softmax
                           /\ IF pad_token_id = Unbound
                              THEN \* NameError at the padding line
                                   /\ pc' = "raised"
                                   /\ UNCHANGED <<input_ids, unfinished_sequences,
                                                  this_peer_finished, steps, emitted,
                                                  finished_at, is_stopping>>
                              ELSE /\ input_ids' = ids
                                   /\ emitted' = Concatenate(emitted, next_tokens)
                                   /\ steps' = steps + 1
                                   /\ IF streamer = "unbound"
                                      THEN \* NameError at `if streamer:`
                                           /\ pc' = "raised"
                                           /\ UNCHANGED <<unfinished_sequences,
                                                          this_peer_finished,
                                                          finished_at, is_stopping>>
                                      ELSE /\ pc' = "loop"
                                           /\ is_stopping' = stopping
                                           /\ unfinished_sequences' = unfinished
                                           /\ this_peer_finished' =
                                                  AllFinished(unfinished)
                                           /\ finished_at' =
                                                  FinishedAt(finished_at,
                                                             unfinished_sequences,
                                                             unfinished, steps + 1)
    /\ UNCHANGED <<decoder, chunking, args, never_stop, prompt, pad_token_id,
                   streamer,
                   first_argmax, same_logits, last_scores, encoder_hidden_states,
                   result, tts>>

SampleReturn ==
    /\ decoder = "sample"
    /\ pc = "loop"
    /\ this_peer_finished
    /\ pc' = "returned"
    /\ result' = ReturnValue(input_ids)
    /\ UNCHANGED <<decoder, chunking, args, never_stop, prompt, input_ids,
                   unfinished_sequences,
                   this_peer_finished, past_length, pad_token_id, streamer, steps,
                   calls, fed, emitted, finished_at, is_stopping, first_argmax, same_logits,
                   last_scores, probs, encoder_hidden_states, context_log, tts>>

InitSample(ns) ==
    \E batch \in BatchSizes,
       n \in IF ns THEN StubPromptLens(2, max_length_chat)
             ELSE PromptLens(2, max_length_chat),
       pad \in ChatPads, strm \in {"unbound", "None"}, options \in ChatArgs :
        InitLoop("sample", ns, batch, PromptOfLen(n, <<>>, 9), pad, strm, "None",
                 options)

(***************************************************************************)
(* gpt-sovits.py: T2SModel.forward                                         *)
(*                                                                         *)
(* first_stage_decoder and stage_decoder are the inference calls.  Each     *)
(* stage_decoder call that returns appends one token to y.  A position of  *)
(* y holds where its token came from: the prompts, first_stage_decoder, or *)
(* the number of the stage_decoder call that appended it; 0 is the value   *)
(* forward writes into the last position.                                  *)
(***************************************************************************)
FromPrompts == 0 - 2
FromFirstStage == 0 - 1

hz == 50
\* for idx in range(1, 1500)
range_stop == 1500

\* config["data"]["max_sec"], and early_stop_num as T2SModel.__init__ sets it;
\* -1 is the value forward treats as "no early stop".
MaxSecs == {0, 1, 30}
EarlyStopNums == {0 - 1} \cup {hz * s : s \in MaxSecs}

\* prompts.shape[1], and the tokens first_stage_decoder adds to the prompts.
PrefixLens == {2}
FirstStageTokens == {0, 1}

\* Faulty variant: (y.shape[1] - prefix_len) >= early_stop_num
EarlyStopAtLeast(early_stop_num, y_len, prefix_len) ==
    early_stop_num # 0 - 1 /\ (y_len - prefix_len) >= early_stop_num

\* early_stop_num != -1 and (y.shape[1] - prefix_len) > early_stop_num
EarlyStop(early_stop_num, y_len, prefix_len) ==
    early_stop_num # 0 - 1 /\ (y_len - prefix_len) > early_stop_num

\* Faulty variant: for idx in range(1, 1501)
LastIdxInclusive == range_stop

\* The last idx of range(1, 1500)
LastIdx == range_stop - 1

\* y[:, -idx:] has this many tokens
SliceLen(y_len, idx) == IF idx < y_len THEN idx ELSE y_len

\* Faulty variant: the last position is left as it is.
ZeroLastLeftOut(y) == y

\* y[0, -1] = 0
ZeroLast(y) == [y EXCEPT ![Len(y)] = 0]

\* y[:, -idx:]
LastTokens(y, idx) == SubSeq(y, Len(y) - SliceLen(Len(y), idx) + 1, Len(y))

T2SStep ==
    /\ decoder = "T2SModel.forward"
    /\ pc = "loop"
    /\ tts.idx <= LastIdx
    /\ calls' = calls + 1
    /\ \E outcome \in {"returns", "raises"}, eos \in BOOLEAN :
         IF outcome = "raises"
         THEN /\ pc' = "raised"
              /\ UNCHANGED <<tts, steps>>
         ELSE LET y == Append(tts.y, tts.idx)
                  early == EarlyStop(tts.early_stop_num, Len(y), tts.prefix_len)
                  stop == tts.stop \/ early \/ eos
                  exhausted == tts.idx >= LastIdx
              IN  /\ steps' = steps + 1
                  /\ pc' = IF stop \/ exhausted THEN "exit" ELSE "loop"
                  /\ tts' = [tts EXCEPT !.y = y, !.y_len = Len(y), !.stop = stop,
                                        !.early = early, !.eos = eos,
                                        !.idx = IF stop \/ exhausted THEN @ ELSE @ + 1]
    /\ UNCHANGED <<decoder, chunking, args, never_stop, prompt, input_ids,
                   unfinished_sequences,
                   this_peer_finished, past_length, pad_token_id, streamer, fed,
                   emitted, finished_at, is_stopping, first_argmax, same_logits, last_scores,
                   probs, encoder_hidden_states, context_log, result>>

\* y[0, -1] = 0; return y[:, -idx:].unsqueeze(0)
T2SReturn ==
    /\ decoder = "T2SModel.forward"
    /\ pc = "exit"
    /\ pc' = "returned"
    /\ tts' = [tts EXCEPT !.y = ZeroLast(@),
                          !.returned_len = SliceLen(tts.y_len, tts.idx)]
    /\ result' = LastTokens(ZeroLast(tts.y), tts.idx)
    /\ UNCHANGED <<decoder, chunking, args, never_stop, prompt, input_ids,
                   unfinished_sequences,
                   this_peer_finished, past_length, pad_token_id, streamer, steps,
                   calls, fed, emitted, finished_at, is_stopping, first_argmax, same_logits,
                   last_scores, probs, encoder_hidden_states, context_log>>

InitT2S ==
    \E early \in EarlyStopNums, prefix \in PrefixLens, first \in FirstStageTokens :
        /\ decoder = "T2SModel.forward"
        /\ args = NoArgs
        /\ pc = "loop"
        /\ never_stop = FALSE
        /\ prompt = <<>>
        /\ input_ids = <<>>
        /\ unfinished_sequences = <<>>
        /\ this_peer_finished = FALSE
        /\ past_length = 0
        /\ pad_token_id = Unbound
        /\ streamer = "None"
        /\ steps = 0
        /\ calls = 0
        /\ fed = <<>>
        /\ emitted = <<>>
        /\ finished_at = <<>>
        /\ is_stopping = <<>>
        /\ first_argmax = <<>>
        /\ same_logits = TRUE
        /\ last_scores = <<>>
        /\ probs = <<>>
        /\ encoder_hidden_states = "None"
        /\ context_log = <<>>
        /\ result = <<>>
        /\ tts = [y |-> [i \in 1..(prefix + first) |->
                             IF i <= prefix THEN FromPrompts ELSE FromFirstStage],
                  y_len |-> prefix + first, prefix_len |-> prefix,
                  early_stop_num |-> early, idx |-> 1, stop |-> FALSE,
                  early |-> FALSE, eos |-> FALSE, returned_len |-> 0]
        /\ chunking = NoChunking

(***************************************************************************)
(* The specifications.                                                     *)
(***************************************************************************)
(***************************************************************************)
(* kotoba-whisper.py: preprocess and chunk_iter                            *)
(*                                                                         *)
(* The input is kept as its number of samples: a chunk is the slice        *)
(* inputs[chunk_start_idx:chunk_end_idx], and what is yielded for it is    *)
(* kept as its start and its stride triple.                                *)
(***************************************************************************)
\* Python's round(a / b) for a >= 0, b > 0: to the nearest integer, a tie to
\* the even one.
Round(a, b) ==
    LET q == a \div b
        r == a % b
    IN  IF 2 * r < b THEN q
        ELSE IF 2 * r > b THEN q + 1
        ELSE IF q % 2 = 0 THEN q ELSE q + 1

\* preprocess: the arguments it calls chunk_iter with for a chunk of
\* chunk_len samples; both strides are a sixth of the chunk, rounded.
PreprocessArgs(chunk_len) ==
    <<chunk_len, Round(chunk_len, 6), Round(chunk_len, 6)>>

\* Faulty variant: step = chunk_len - stride_left
StepLeftOnly(chunk_len, stride_left, stride_right) == chunk_len - stride_left

\* step = chunk_len - stride_left - stride_right
Step(chunk_len, stride_left, stride_right) == chunk_len - stride_left - stride_right

\* inputs[chunk_start_idx:chunk_end_idx].shape[0]
ChunkShape(chunk_start_idx, chunk_end_idx, inputs_len) ==
    (IF chunk_end_idx < inputs_len THEN chunk_end_idx ELSE inputs_len)
        - chunk_start_idx

\* all right strides must be full, otherwise it is the last item
IsLast(stride_right, chunk_end_idx, inputs_len) ==
    IF stride_right > 0 THEN chunk_end_idx > inputs_len
    ELSE chunk_end_idx >= inputs_len

\* The arguments chunk_iter is explored on when called directly.
ChunkArgs ==
    {<<l, sl, sr>> : l \in 1..MaxChunkLen, sl \in 0..MaxStride, sr \in 0..MaxStride}

\* chunk_iter is called directly, or by preprocess, which raises ValueError
\* when the chunk is shorter than its two strides.
InitChunk ==
    \E n \in 0..MaxInputsLen,
       a \in ChunkArgs \cup {PreprocessArgs(l) : l \in 1..(2 * MaxChunkLen)} :
        /\ decoder = "chunk_iter"
        /\ args = NoArgs
        /\ pc = IF a = PreprocessArgs(a[1]) /\ a[1] < a[2] + a[3] THEN "raised"
                ELSE "loop"
        /\ never_stop = FALSE
        /\ prompt = <<>>
        /\ input_ids = <<>>
        /\ unfinished_sequences = <<>>
        /\ this_peer_finished = FALSE
        /\ past_length = 0
        /\ pad_token_id = Unbound
        /\ streamer = "None"
        /\ steps = 0
        /\ calls = 0
        /\ fed = <<>>
        /\ emitted = <<>>
        /\ finished_at = <<>>
        /\ is_stopping = <<>>
        /\ first_argmax = <<>>
        /\ same_logits = TRUE
        /\ last_scores = <<>>
        /\ probs = <<>>
        /\ encoder_hidden_states = "None"
        /\ context_log = <<>>
        /\ result = <<>>
        /\ tts = NoTts
        /\ chunking = [inputs_len |-> n, chunk_len_arg |-> a[1], chunk_len |-> a[1],
                       stride_left |-> a[2], stride_right |-> a[3],
                       step |-> Step(a[1], a[2], a[3]),
                       chunk_start_idx |-> 0, reached |-> 0, yielded |-> <<>>]

\* One pass through the body of `for chunk_start_idx in range(0, inputs_len,
\* step)`, up to the next chunk_start_idx or the end of the generator; a
\* step of 0 makes range raise ValueError, and range is empty for a negative
\* step or an empty input.
ChunkStep ==
    /\ decoder = "chunk_iter"
    /\ pc = "loop"
    /\ LET c == chunking
           chunk_end_idx == c.chunk_start_idx + c.chunk_len
           shape == ChunkShape(c.chunk_start_idx, chunk_end_idx, c.inputs_len)
           _stride_left == IF c.chunk_start_idx = 0 THEN 0 ELSE c.stride_left
           is_last == IsLast(c.stride_right, chunk_end_idx, c.inputs_len)
           _stride_right == IF is_last THEN 0 ELSE c.stride_right
           item == [start |-> c.chunk_start_idx,
                    stride |-> <<shape, _stride_left, _stride_right>>]
           next == c.chunk_start_idx + c.step
       IN  IF c.step = 0
           THEN /\ pc' = "raised"
                /\ UNCHANGED <<chunking, steps>>
           ELSE IF c.step < 0 \/ c.chunk_start_idx >= c.inputs_len
           THEN /\ pc' = "returned"
                /\ UNCHANGED <<chunking, steps>>
           ELSE /\ steps' = steps + 1
                /\ pc' = IF is_last \/ next >= c.inputs_len THEN "returned"
                         ELSE "loop"
                /\ chunking' =
                       [c EXCEPT !.chunk_len = shape,
                                 !.reached = @ + 1,
                                 !.yielded = IF shape > _stride_left
                                             THEN Append(@, item) ELSE @,
                                 !.chunk_start_idx = IF is_last THEN @ ELSE next]
    /\ UNCHANGED <<decoder, args, never_stop, prompt, input_ids, unfinished_sequences,
                   this_peer_finished, past_length, pad_token_id, streamer, calls,
                   fed, emitted, finished_at, is_stopping, first_argmax, same_logits,
                   last_scores, probs, encoder_hidden_states, context_log, result,
                   tts>>

Init == InitGreedy(FALSE) \/ InitSample(FALSE) \/ InitT2S

Next ==
    \/ GreedyStep
    \/ GreedyReturn
    \/ SampleStep
    \/ SampleReturn
    \/ T2SStep
    \/ T2SReturn

Spec == Init /\ [][Next]_vars

\* greedy_search and sample with stopping_criteria replaced by the stub.
InitStub == InitGreedy(TRUE) \/ InitSample(TRUE)

NextStub == GreedyStep \/ SampleStep

SpecStub == InitStub /\ [][NextStub]_vars

\* chunk_iter on its own, over the arguments of ChunkArgs.
NextChunk == ChunkStep

SpecChunk == InitChunk /\ [][NextChunk]_vars

(***************************************************************************)
(* The properties.                                                         *)
(***************************************************************************)
Batched == decoder \in {"greedy_search", "sample"}

PromptLen == Len(prompt[1])

\* The pad id of the running loop.
PadId == IF decoder = "greedy_search" THEN pad_token_id_asr ELSE pad_token_id

\* The max-length ceiling and the eos id of the running loop's stopping_criteria.
Ceiling == IF decoder = "greedy_search" THEN max_length_asr ELSE max_length_chat

EosId == IF decoder = "greedy_search" THEN eos_token_id_asr ELSE eos_token_id_chat

\* The most iterations an invocation can run.
IterationCeiling ==
    IF decoder = "T2SModel.forward" THEN range_stop - 1
    ELSE IF PromptLen >= Ceiling THEN 1 ELSE Ceiling - PromptLen

AllRowsFinished == \A r \in DOMAIN unfinished_sequences : unfinished_sequences[r] = 0

\* C1: in greedy_search and sample, every token appended to a row at a step
\* after the step that first marked the row finished is the pad id, whatever
\* the scores were.
C1_FinishedRowsGetPad ==
    Batched =>
        \A r \in DOMAIN input_ids :
            finished_at[r] # 0 =>
                \A j \in (finished_at[r] + 1)..Len(emitted[r]) :
                    input_ids[r][PromptLen + j] = PadId

\* A row of greedy_search was finished and a later step appended to it.
C1_Witness ==
    /\ decoder = "greedy_search"
    /\ \E r \in DOMAIN input_ids : finished_at[r] # 0 /\ finished_at[r] < steps

\* C2: a step never turns a row's unfinished_sequences entry from 0 back to 1.
C2_FinishedIsMonotone ==
    [][\A r \in DOMAIN unfinished_sequences :
          unfinished_sequences[r] = 0 => unfinished_sequences'[r] = 0]_vars

\* A finished row went through a later step and is still finished, while
\* another row keeps the loop running.
C2_Witness ==
    /\ Batched
    /\ pc = "loop"
    /\ ~this_peer_finished
    /\ \E r \in DOMAIN input_ids :
         /\ finished_at[r] # 0
         /\ finished_at[r] < steps
         /\ unfinished_sequences[r] = 0

\* C3: no loop runs more iterations than its ceiling (448 or 310 minus the
\* prompt length, at least 1; 1499 for T2SModel.forward), and a loop that has
\* run that many has ended, whatever the inference calls returned.
C3_BoundedIterations ==
    /\ steps <= IterationCeiling
    /\ (Batched /\ pc = "loop" /\ steps = IterationCeiling) => this_peer_finished
    /\ (decoder = "T2SModel.forward" /\ pc = "loop") => steps < IterationCeiling

\* greedy_search ran to the length ceiling without an eos token.
C3_Witness ==
    /\ decoder = "greedy_search"
    /\ steps = IterationCeiling
    /\ steps >= 2
    /\ this_peer_finished
    /\ \A r \in DOMAIN emitted, j \in 1..steps : emitted[r][j] # eos_token_id_asr

C5_StoppingIsTheOr ==
    (Batched /\ steps >= 1 /\ pc # "raised") =>
        \A r \in DOMAIN input_ids :
            is_stopping[r] <=>
                (Len(input_ids[r]) >= Ceiling \/ Last(input_ids[r]) = EosId)

\* greedy_search reported a row finished by its length alone.
C5_Witness ==
    /\ decoder = "greedy_search"
    /\ steps >= 1
    /\ pc = "loop"
    /\ \E r \in DOMAIN input_ids :
         /\ is_stopping[r]
         /\ Len(input_ids[r]) = max_length_asr
         /\ Last(input_ids[r]) # eos_token_id_asr

\* C6: after an iteration the loop is left exactly when every row is
\* finished: it returns at the iteration that finished the last row, and it
\* has not returned while a row is unfinished.
C6_ExitsWhenAllFinished ==
    Batched =>
        /\ (pc = "loop" /\ steps >= 1) => (this_peer_finished <=> AllRowsFinished)
        /\ pc = "returned" =>
               /\ AllRowsFinished
               /\ \A r \in DOMAIN finished_at : finished_at[r] \in 1..steps
               /\ \E r \in DOMAIN finished_at : finished_at[r] = steps

\* A batch of two rows that finished at different steps has returned.
C6_Witness ==
    /\ Batched
    /\ pc = "returned"
    /\ Len(finished_at) = 2
    /\ finished_at[1] # finished_at[2]

\* C7 as claimed: a row of greedy_search whose raw scores of step 1 have
\* their arg-max at the eos id gets the eos token at step 1 and is finished
\* by it, a generated sequence of length 1.
C7_EosArgmaxStopsAtOne ==
    (decoder = "greedy_search" /\ steps >= 1) =>
        \A r \in DOMAIN emitted :
            first_argmax[r] = eos_token_id_asr =>
                /\ emitted[r][1] = eos_token_id_asr
                /\ finished_at[r] = 1

\* C7 as amended: called with a prompt of begin_index (3) tokens, as predict
\* calls it, greedy_search masks the eos id at step 1; a row whose raw arg-max
\* of step 1 is the eos id gets another token, is not finished by step 1, and
\* the loop returns no sooner than after 2 iterations.
C7_EosMaskedAtBegin ==
    (decoder = "greedy_search" /\ PromptLen = begin_index /\ steps >= 1) =>
        /\ \A r \in DOMAIN emitted :
               first_argmax[r] = eos_token_id_asr =>
                   /\ emitted[r][1] # eos_token_id_asr
                   /\ finished_at[r] # 1
        /\ pc = "returned" => steps >= 2

\* The raw arg-max of step 1 was eos, and the row ended with eos at step 2.
C7_Witness ==
    /\ decoder = "greedy_search"
    /\ PromptLen = begin_index
    /\ pc = "returned"
    /\ steps = 2
    /\ first_argmax[1] = eos_token_id_asr
    /\ emitted[1][2] = eos_token_id_asr

C9_CacheIsWhatWasFed ==
    (decoder = "greedy_search" /\ pc # "raised") =>
        /\ Len(fed) = steps
        /\ calls = steps
        /\ steps = 0 => past_length = 0
        /\ steps >= 1 =>
               /\ fed[1] = <<0, PromptLen>>
               /\ past_length = PromptLen + steps - 1
               /\ past_length = fed[steps][2]
        /\ \A i \in 2..steps :
               /\ fed[i][1] = fed[i - 1][2]
               /\ fed[i] = <<PromptLen + i - 2, PromptLen + i - 1>>

\* The loop went on stepping a batch in which a row was already finished.
C9_Witness ==
    /\ decoder = "greedy_search"
    /\ pc = "loop"
    /\ steps >= 2
    /\ past_length = PromptLen + 1
    /\ \E r \in DOMAIN finished_at : finished_at[r] = 1

\* C10 as claimed: when greedy_search returns after g iterations on a prompt
\* of p tokens the cache time-length is p + g.
C10_CacheIsPromptPlusGenerated ==
    (decoder = "greedy_search" /\ pc = "returned") =>
        past_length = PromptLen + steps

\* C10 as amended: the cache time-length is then p + g - 1 (5 in the
\* scenario): the last token appended is never fed to the decoder.
C10_CacheLacksLastToken ==
    (decoder = "greedy_search" /\ pc = "returned") =>
        /\ past_length = PromptLen + steps - 1
        /\ calls = steps

\* The scenario: p = 3, no eos at steps 1 and 2, eos at step 3, cache 5.
C10_Witness ==
    /\ decoder = "greedy_search"
    /\ pc = "returned"
    /\ Len(prompt) = 1
    /\ PromptLen = 3
    /\ steps = 3
    /\ emitted[1][1] # eos_token_id_asr
    /\ emitted[1][2] # eos_token_id_asr
    /\ emitted[1][3] = eos_token_id_asr
    /\ past_length = 5

(***************************************************************************)
(* The logits processors of greedy_search.                                 *)
(***************************************************************************)
IsTimestamp(t) == t >= timestamp_begin

\* Row r was unfinished when the last iteration chose its token.
ChosenAtLastStep(r) == finished_at[r] = 0 \/ finished_at[r] = steps

\* C11 as claimed: among the generated tokens of an unfinished row, a
\* timestamp that follows a non-timestamp is followed by a non-timestamp, and
\* a timestamp that follows a timestamp is followed by no ordinary text token
\* (an id below eos).
C11_PairsAsClaimed ==
    decoder = "greedy_search" =>
        \A r \in DOMAIN emitted :
            \A j \in 3..Len(emitted[r]) :
                (finished_at[r] = 0 \/ j <= finished_at[r]) =>
                    /\ (IsTimestamp(emitted[r][j - 1]) /\ ~IsTimestamp(emitted[r][j - 2]))
                           => ~IsTimestamp(emitted[r][j])
                    /\ (IsTimestamp(emitted[r][j - 1]) /\ IsTimestamp(emitted[r][j - 2]))
                           => emitted[r][j] >= eos_token_id_asr

\* C11 as amended: the rule is the other way round.  For the token an
\* iteration chooses for an unfinished row, with the tokens after position
\* begin_index as the row's history: after a timestamp that follows a
\* timestamp, or that is the only token of the history, the token is a
\* non-timestamp; after a timestamp that follows a non-timestamp the token is
\* eos or a timestamp, or id 0 when that left every score of the row at -inf.
C11_PairsAsCoded ==
    (decoder = "greedy_search" /\ steps >= 1) =>
        \A r \in DOMAIN input_ids :
            LET n == Len(input_ids[r])
                next == input_ids[r][n]
            IN  (/\ ChosenAtLastStep(r)
                 /\ n - 1 > begin_index
                 /\ IsTimestamp(input_ids[r][n - 1])) =>
                    IF n - 2 <= begin_index \/ IsTimestamp(input_ids[r][n - 2])
                    THEN ~IsTimestamp(next)
                    ELSE IF last_scores[r].all_masked THEN next = 0
                         ELSE next >= eos_token_id_asr

\* An opening timestamp, text, a closing timestamp, and the timestamp that
\* opens the next pair right after it.
C11_Witness ==
    /\ decoder = "greedy_search"
    /\ PromptLen = begin_index
    /\ steps = 4
    /\ IsTimestamp(emitted[1][1])
    /\ emitted[1][2] = 0
    /\ IsTimestamp(emitted[1][3])
    /\ IsTimestamp(emitted[1][4])

\* C12: in every row of greedy_search, prompt and appended tokens together,
\* the timestamp ids (>= 50365) are in non-decreasing order: no timestamp is
\* smaller than a timestamp earlier in the row, whatever the scores were.
C12_TimestampsNonDecreasing ==
    decoder = "greedy_search" =>
        \A r \in DOMAIN input_ids :
            LET at == {i \in 1..Len(input_ids[r]) : IsTimestamp(input_ids[r][i])}
            IN  \A i, j \in at : i < j => input_ids[r][i] <= input_ids[r][j]

\* A row holds a timestamp, a later greater one, and that one repeated.
C12_Witness ==
    /\ decoder = "greedy_search"
    /\ \E r \in DOMAIN emitted :
         \E i, j, k \in 1..Len(emitted[r]) :
            /\ i < j
            /\ j < k
            /\ IsTimestamp(emitted[r][i])
            /\ emitted[r][i] < emitted[r][j]
            /\ emitted[r][j] = emitted[r][k]

\* C13: at the first iteration of greedy_search on a prompt of begin_index
\* (3) tokens, the token chosen for a row is a timestamp of the initial
\* window, 50365 <= id <= 50415, provided an id of that window had a finite
\* raw score.
C13_FirstTokenInWindow ==
    (decoder = "greedy_search" /\ PromptLen = begin_index /\ steps = 1) =>
        \A r \in DOMAIN emitted :
            last_scores[r].window =>
                /\ timestamp_begin <= emitted[r][1]
                /\ emitted[r][1] <= timestamp_begin + max_initial_timestamp_index

\* The raw scores of the first iteration favoured a timestamp past the
\* window, and a timestamp of the window was chosen.
C13_Witness ==
    /\ decoder = "greedy_search"
    /\ PromptLen = begin_index
    /\ steps = 1
    /\ first_argmax[1] = timestamp_begin + max_initial_timestamp_index + 1
    /\ last_scores[1].window
    /\ emitted[1][1] = timestamp_begin

\* C14: no token greedy_search appends, at any step and for any row, is a
\* member of suppress_tokens or the no-timestamps id 50364, whatever the
\* scores were.
C14_SuppressedNeverAppended ==
    decoder = "greedy_search" =>
        \A r \in DOMAIN emitted :
            \A j \in 1..Len(emitted[r]) :
                /\ emitted[r][j] \notin suppress_tokens
                /\ emitted[r][j] # no_timestamps_token_id

\* At a step other than the begin step the raw scores of one row favoured a
\* member of suppress_tokens and those of the other row the no-timestamps id.
C14_Witness ==
    /\ decoder = "greedy_search"
    /\ PromptLen # begin_index
    /\ steps >= 1
    /\ Len(first_argmax) = 2
    /\ first_argmax[1] \in suppress_tokens
    /\ first_argmax[2] = no_timestamps_token_id

C16_EachRowFromItsOwnProbs ==
    (decoder = "sample" /\ steps >= 1) =>
        \A r \in DOMAIN input_ids :
            ChosenAtLastStep(r) => Last(input_ids[r]) \in probs[r]

(***************************************************************************)
(* T2SModel.forward.                                                       *)
(***************************************************************************)
T2S == decoder = "T2SModel.forward"

\* The for loop has been left: by break or by the end of the range.
LoopLeft == pc \in {"exit", "returned"}

\* The tokens y held beyond the prompts when first_stage_decoder returned.
FirstStage == tts.y_len - tts.prefix_len - steps

\* C17 as claimed: with early_stop_num # -1 and no EOS from the stage
\* decoder the loop is left after exactly early_stop_num + 1 iterations,
\* whenever that is within the range of the loop.
C17_StopsAfterEarlyStopPlusOne ==
    (/\ T2S
     /\ LoopLeft
     /\ ~tts.eos
     /\ tts.early_stop_num # 0 - 1
     /\ tts.early_stop_num + 1 <= range_stop - 1) =>
        steps = tts.early_stop_num + 1

\* C17 as amended: the duration test fires at the first iteration in which
\* y.shape[1] - prefix_len exceeds early_stop_num, and that count includes
\* the f tokens y holds beyond the prompts when first_stage_decoder returns:
\* without EOS the loop is left after max(early_stop_num + 1 - f, 1)
\* iterations when that is at most 1499, and after 1499 iterations with the
\* test never having fired otherwise; with early_stop_num = -1 it never fires.
C17_StopsWhenNewTokensExceed ==
    T2S =>
        /\ pc = "loop" => ~tts.early
        /\ (pc = "loop" /\ steps >= 1 /\ tts.early_stop_num # 0 - 1) =>
               tts.y_len - tts.prefix_len <= tts.early_stop_num
        /\ tts.early_stop_num = 0 - 1 => ~tts.early
        /\ (LoopLeft /\ ~tts.eos /\ tts.early_stop_num # 0 - 1) =>
               LET due == IF tts.early_stop_num + 1 - FirstStage >= 1
                          THEN tts.early_stop_num + 1 - FirstStage ELSE 1
               IN  IF due <= range_stop - 1
                   THEN steps = due /\ tts.early
                   ELSE steps = range_stop - 1 /\ ~tts.early

\* first_stage_decoder added one token to the prompts, early_stop_num is 50,
\* and the duration test ended the loop at iteration 50.
C17_Witness ==
    /\ T2S
    /\ pc = "exit"
    /\ ~tts.eos
    /\ tts.early
    /\ tts.early_stop_num = hz
    /\ FirstStage = 1
    /\ steps = hz

\* C18: T2SModel.forward returns idx tokens, idx being the number of
\* stage_decoder calls made: the tokens those calls appended, in the order of
\* the calls, without the prompts' and first_stage_decoder's tokens, and with
\* 0 in the last position, whichever way the loop was left.
C18_ReturnsNewTokensLastZeroed ==
    (T2S /\ pc = "returned") =>
        /\ tts.idx = calls
        /\ calls = steps
        /\ Len(result) = tts.idx
        /\ tts.returned_len = tts.idx
        /\ \A i \in 1..(tts.idx - 1) : result[i] = i
        /\ result[tts.idx] = 0

\* The loop ran to the end of its range, neither EOS nor the duration test
\* (enabled, with early_stop_num 1500) having fired, and forward returned.
C18_Witness ==
    /\ T2S
    /\ pc = "returned"
    /\ ~tts.eos
    /\ ~tts.early
    /\ tts.early_stop_num # 0 - 1
    /\ steps = range_stop - 1
    /\ Len(result) = range_stop - 1
    /\ Last(result) = 0

\* C19 as claimed: with early_stop_num = -1 and no EOS, forward returns
\* after exactly 1500 stage_decoder calls.
C19_Makes1500Calls ==
    (T2S /\ pc = "returned" /\ tts.early_stop_num = 0 - 1 /\ ~tts.eos) =>
        calls = range_stop

\* C19 as amended: range(1, 1500) has 1499 values; with early_stop_num = -1
\* and no EOS, forward returns after exactly 1499 stage_decoder calls, and
\* no run makes more.
C19_Makes1499Calls ==
    T2S =>
        /\ calls <= range_stop - 1
        /\ (pc = "returned" /\ tts.early_stop_num = 0 - 1 /\ ~tts.eos) =>
               /\ calls = range_stop - 1
               /\ tts.idx = range_stop - 1

\* Early stop disabled, no EOS, and forward has returned.
C19_Witness ==
    /\ T2S
    /\ pc = "returned"
    /\ tts.early_stop_num = 0 - 1
    /\ ~tts.eos
    /\ calls = range_stop - 1

(***************************************************************************)
(* The encoder context.                                                    *)
(***************************************************************************)
\* C20: every decode call of greedy_search gets the encoder_hidden_states
\* greedy_search was called with, the same value on every call; in sample,
\* forward runs audio_encode on the first call, the one made with an empty
\* cache, and on no later call.
C20_ContextFixedAndEncodedOnce ==
    /\ Batched => Len(context_log) = calls
    /\ decoder = "greedy_search" =>
           \A i \in 1..Len(context_log) :
               /\ context_log[i] = encoder_hidden_states
               /\ context_log[i] \in EncoderContexts
    /\ decoder = "sample" =>
           \A i \in 1..Len(context_log) :
               context_log[i] <=> (i = 1)

\* sample has made three forward calls: audio_encode ran on the first alone.
C20_Witness ==
    /\ decoder = "sample"
    /\ calls = 3
    /\ steps >= 2
    /\ context_log = <<TRUE, FALSE, FALSE>>

(***************************************************************************)
(* Failures.                                                               *)
(***************************************************************************)
\* C21: in greedy_search every decode call either appended a token to every
\* row or raised and ended the invocation: after a raise no further call is
\* made (the failed one is the last and is not repeated), no token is
\* appended, nothing is returned, and no step follows.
C21_RaiseAborts ==
    /\ [](decoder = "greedy_search" =>
             /\ calls <= steps + 1
             /\ calls = steps + 1 <=> pc = "raised"
             /\ pc = "raised" =>
                    /\ result = <<>>
                    /\ Len(fed) = calls
                    /\ \A r \in DOMAIN input_ids :
                           /\ Len(emitted[r]) = steps
                           /\ Len(input_ids[r]) = PromptLen + steps)
    /\ [][(decoder = "greedy_search" /\ pc = "raised") => UNCHANGED vars]_vars

\* decode raised in the third iteration of greedy_search.
C21_Witness ==
    /\ decoder = "greedy_search"
    /\ pc = "raised"
    /\ steps = 2
    /\ calls = 3

\* Sampling options no decoding can honour.
Contradictory(options) ==
    options.temperature <= 0 \/ options.top_p <= 0 \/ options.top_k < 1

\* C22 as claimed: sample makes no forward call when the sampling options
\* contradict one another (temperature <= 0, top_p <= 0 or top_k < 1).
C22_ContradictoryArgsRejected ==
    (decoder = "sample" /\ Contradictory(args)) => calls = 0

\* C23 as claimed: greedy_search appends no token to an unfinished row
\* whose scores the processors left at -inf throughout.
C23_FullyMaskedRowIsAnError ==
    (decoder = "greedy_search" /\ steps >= 1) =>
        \A r \in DOMAIN input_ids :
            ChosenAtLastStep(r) => ~last_scores[r].all_masked

\* C24 as claimed: the result of T2SModel.forward tells a run ended by the
\* end of the range from a run ended by EOS or the duration test: the
\* result a run to the end of the range returns (range_stop - 1 tokens, the
\* last one 0) is returned by no run in which stop was set.
C24_CeilingRunDistinguishable ==
    (T2S /\ pc = "returned" /\ Len(result) = range_stop - 1) => ~tts.stop

C26_LaterCallsFeedOneToken ==
    decoder = "sample" =>
        /\ calls = Len(fed)
        /\ steps <= calls /\ calls <= steps + 1
        /\ \A i \in 2..Len(fed) :
               fed[i] = <<PromptLen + i - 2, PromptLen + i - 1>>

\* C27 as claimed: among the tokens greedy_search appended to a row, a
\* timestamp that is the first of them or follows a timestamp is followed by
\* a non-timestamp, and a timestamp that follows a non-timestamp is followed
\* by a token with id >= eos_token_id, never by a text token.
C27_PairsExceptBeforeEos ==
    decoder = "greedy_search" =>
        \A r \in DOMAIN emitted :
            \A j \in 2..Len(emitted[r]) :
                IsTimestamp(emitted[r][j - 1]) =>
                    IF j = 2 \/ IsTimestamp(emitted[r][j - 2])
                    THEN ~IsTimestamp(emitted[r][j])
                    ELSE emitted[r][j] >= eos_token_id_asr

\* C28: among the tokens greedy_search appended to a row, a timestamp that
\* directly follows a non-timestamp is strictly greater than every timestamp
\* appended before it, so the two timestamps around a stretch of text are
\* never equal; only a timestamp that directly follows a timestamp may
\* repeat it.
C28_ClosingTimestampGreater ==
    decoder = "greedy_search" =>
        \A r \in DOMAIN emitted :
            LET at == {i \in 1..Len(emitted[r]) : IsTimestamp(emitted[r][i])}
            IN  \A i, j \in at :
                    (i < j /\ ~IsTimestamp(emitted[r][j - 1])) =>
                        emitted[r][i] < emitted[r][j]

\* An opening timestamp, text, a greater closing timestamp, and that
\* closing timestamp once more as the opening of the next segment.
C28_Witness ==
    /\ decoder = "greedy_search"
    /\ Len(emitted[1]) = 4
    /\ IsTimestamp(emitted[1][1])
    /\ ~IsTimestamp(emitted[1][2])
    /\ emitted[1][1] < emitted[1][3]
    /\ emitted[1][4] = emitted[1][3]

Tiling ==
    /\ decoder = "chunk_iter"
    /\ chunking.inputs_len > 0
    /\ chunking.stride_left = chunking.stride_right
    /\ chunking.stride_left > 0
    /\ chunking.chunk_len_arg > 2 * chunking.stride_left

\* The region of the input the i-th yielded chunk stands for.
RegionFrom(i) == chunking.yielded[i].start + chunking.yielded[i].stride[2]

RegionTo(i) ==
    chunking.yielded[i].start + chunking.yielded[i].stride[1]
        - chunking.yielded[i].stride[3]

\* C30: for a non-empty input of n samples, chunk length L and strides
\* stride_left = stride_right = s with s > 0 and L > 2s, chunk_iter ends
\* without raising after at most n passes, every chunk reached is yielded,
\* the i-th chunk starts at (i - 1) * (L - 2s), the first has left stride 0
\* and every other left stride s, every right stride is s except that of the
\* last chunk of the finished generator, which is 0, and the regions
\* [start + left, start + len - right) follow one another without gap or
\* overlap from 0 to n.
C30_ChunksTileTheInput ==
    Tiling =>
        LET y == chunking.yielded
            s == chunking.stride_left
            n == chunking.inputs_len
        IN  /\ pc \in {"loop", "returned"}
            /\ steps <= n
            /\ pc = "loop" => chunking.chunk_start_idx < n
            /\ Len(y) = chunking.reached
            /\ Len(y) = steps
            /\ pc = "returned" => Len(y) >= 1
            /\ \A i \in 1..Len(y) :
                   /\ y[i].start = (i - 1) * (chunking.chunk_len_arg - 2 * s)
                   /\ y[i].stride[2] = IF i = 1 THEN 0 ELSE s
                   /\ y[i].stride[3] =
                          IF i = Len(y) /\ pc = "returned" THEN 0 ELSE s
                   /\ RegionFrom(i) < RegionTo(i)
                   /\ RegionFrom(i) = IF i = 1 THEN 0 ELSE RegionTo(i - 1)
                   /\ RegionTo(i) <= n
            /\ pc = "returned" => RegionTo(Len(y)) = n

\* Seven samples in chunks of four with strides of one: three chunks, the
\* last one cut short by the end of the input.
C30_Witness ==
    /\ Tiling
    /\ pc = "returned"
    /\ chunking.inputs_len = 7
    /\ chunking.chunk_len_arg = 4
    /\ chunking.stride_left = 1
    /\ Len(chunking.yielded) = 3
    /\ chunking.yielded[3].stride = <<3, 1, 0>>

====
